---- MODULE Spec2Model ----
(***************************************************************************)
(* The feed backend of iron-example: the in-memory Database (database.rs), *)
(* the Post value (model.rs) and the three Iron handlers of handlers.rs    *)
(* that share one Arc<Mutex<Database>>.  Each worker thread of the HTTP    *)
(* server runs one handler at a time; a handler is cut into steps at the   *)
(* points where it touches the mutex, so that every interleaving of the    *)
(* handlers' critical sections is explored.                                *)
(***************************************************************************)
EXTENDS Integers, Sequences, FiniteSets, TLC

(* ------------------------------ bounds --------------------------------- *)
\* worker threads of the HTTP server that run handlers in parallel
NumWorkers == 2
\* requests served in one behaviour
MaxRequests == 2
\* distinct UUID values in play
MaxUuid == 3

Workers == 1..NumWorkers
Uuids == 1..MaxUuid

(* ------------------------------ model.rs ------------------------------- *)
\* the client-chosen part of a post; contents, author and timestamp are
\* carried but never inspected by the handlers
Summaries == {"s"}

Post == [summary : Summaries \cup {"First post", "Hermes is now online"},
         contents : {"c"}, author_handle : {"Mathieu"},
         date_time : {0}, uuid : Uuids]

PostNew(summary, contents, author, date_time, id) ==
    [summary |-> summary, contents |-> contents, author_handle |-> author,
     date_time |-> date_time, uuid |-> id]

\* Post::uuid
uuid(post) == post.uuid

\* placeholder for a local that holds no post
NoPost == [summary |-> "", contents |-> "", author_handle |-> "",
           date_time |-> 0, uuid |-> 0]

(* ------------------------------ database.rs ---------------------------- *)
\* Database::new
DatabaseNew == [posts |-> << >>]

\* add_post as it would be with an assignment in place of the push
add_post_overwrite(database, post) == [database EXCEPT !.posts = <<post>>]
\* add_post as it would be with insert(0, post)
add_post_front(database, post) == [database EXCEPT !.posts = <<post>> \o @]
\* add_post as it would be if the pushed value were not yet fully written
add_post_torn(database, post) ==
    [database EXCEPT !.posts = Append(@, [post EXCEPT !.summary = ""])]

\* add_post as it would be with a check that skips an id already stored
add_post_unique(database, post) ==
    IF \E i \in 1..Len(database.posts) : database.posts[i].uuid = post.uuid
    THEN database
    ELSE [database EXCEPT !.posts = Append(@, post)]

\* Database::add_post
add_post(database, post) == [database EXCEPT !.posts = Append(@, post)]

\* posts as it would be if it handed out the newest post first
posts_reversed(database) ==
    [i \in 1..Len(database.posts) |-> database.posts[Len(database.posts) + 1 - i]]

\* Database::posts
posts(database) == database.posts

(* ------------------ text on the wire: JSON and UUID strings ------------ *)
\* A JSON text is kept as its layout and the post it spells.  Two layouts
\* ("compact", as the encoder writes it, and "spaced", with extra white
\* space) spell the same post; "incomplete" lacks a field of Post and
\* "notjson" is no JSON at all.  Clients send the spaced layout, so that
\* a body and the re-encoding of the post it spells are different texts.
NoPayload == [form |-> "none", post |-> NoPost]
ClientPosts == {PostNew(s, "c", "Mathieu", 0, u) : s \in Summaries, u \in Uuids}
ClientLayouts == {"spaced"}
GoodPayloads == [form : ClientLayouts, post : ClientPosts]
BadPayloads == {[form |-> "incomplete", post |-> NoPost],
                [form |-> "notjson", post |-> NoPost]}
Payloads == GoodPayloads \cup BadPayloads

\* json::decode as it would be if a missing field were filled with a
\* default (Option fields) where Post's derive demands every field
json_decode_lenient(payload) ==
    IF payload.form \in {"compact", "spaced", "incomplete"}
    THEN [ok |-> TRUE, post |-> payload.post, err |-> ""]
    ELSE [ok |-> FALSE, post |-> NoPost, err |-> "failed to parse json"]

\* json::decode::<Post>
json_decode(payload) ==
    IF payload.form \in {"compact", "spaced"}
    THEN [ok |-> TRUE, post |-> payload.post, err |-> ""]
    ELSE [ok |-> FALSE, post |-> NoPost,
          err |-> IF payload.form = "incomplete" THEN "missing field"
                  ELSE "failed to parse json"]

\* json::encode(&Post): fault is the encoder reporting an EncoderError
json_encode(post, fault) ==
    IF fault THEN [ok |-> FALSE, payload |-> NoPayload, err |-> "encoder error"]
    ELSE [ok |-> TRUE, payload |-> [form |-> "compact", post |-> post], err |-> ""]

\* the encoding of the Vec as it would be if it stopped one element early
json_encode_posts_short(ps, fault) ==
    IF fault THEN [ok |-> FALSE, items |-> << >>, err |-> "encoder error"]
    ELSE [ok |-> TRUE,
          items |-> [i \in 1..(Len(ps) - 1) |-> json_encode(ps[i], FALSE).payload],
          err |-> ""]

\* json::encode(&Vec<Post>): the array of the encoded posts, in order
json_encode_posts(ps, fault) ==
    IF fault THEN [ok |-> FALSE, items |-> << >>, err |-> "encoder error"]
    ELSE [ok |-> TRUE,
          items |-> [i \in 1..Len(ps) |-> json_encode(ps[i], FALSE).payload],
          err |-> ""]

\* the :id segment of the path: a hyphenated or a simple (no hyphens)
\* spelling of a UUID, or a string that is no UUID.  Clients use the
\* hyphenated spelling.
NoParam == [form |-> "none", id |-> 0]
ClientSpellings == {"hyphenated"}
GoodParams == [form : ClientSpellings, id : Uuids]
BadParams == {[form |-> "not-a-uuid", id |-> 0]}
Params == GoodParams \cup BadParams

\* Uuid::parse_str
parse_str(s) ==
    IF s.form \in {"hyphenated", "simple"}
    THEN [ok |-> TRUE, id |-> s.id, err |-> ""]
    ELSE [ok |-> FALSE, id |-> 0, err |-> "UUID parse error"]

(* ------------------------------ responses ------------------------------ *)
Ok == 200
Created == 201
BadRequest == 400
NotFound == 404
InternalServerError == 500

NoResponse == [status |-> 0, kind |-> "none", text |-> "",
               payload |-> NoPayload, items |-> << >>]
\* Response::with(status)
ResponseStatus(status) == [NoResponse EXCEPT !.status = status, !.kind = "empty"]
\* Response::with((status, e.description()))
ResponseText(status, description) ==
    [NoResponse EXCEPT !.status = status, !.kind = "text", !.text = description]
\* Response::with((status, payload)) for one JSON text
ResponsePayload(status, payload) ==
    [NoResponse EXCEPT !.status = status, !.kind = "json", !.payload = payload]
\* Response::with((status, payload)) for the encoded feed
ResponseItems(status, items) ==
    [NoResponse EXCEPT !.status = status, !.kind = "array", !.items = items]

\* try_handler!(e) as it would be if its default were 400
try_handler_bad_request(description) == ResponseText(BadRequest, description)

\* try_handler!(e): the response on Err
try_handler(description) == ResponseText(InternalServerError, description)

\* try_handler!(e, error) as it would be if it were try!(e): the Err goes
\* to the framework and the handler builds no response
try_handler_with_propagates(description, error) == NoResponse

\* try_handler!(e, error): the response on Err
try_handler_with(description, error) == ResponseText(error, description)

(* ------------------------------ handlers.rs: state --------------------- *)
HandlerNames == {"feed", "make_post", "post"}

\* Handlers::new as it would be if each handler got an Arc around its own
\* copy of the database
HandlersNew_copies == [h \in HandlerNames |->
                         IF h = "feed" THEN 1 ELSE IF h = "make_post" THEN 2 ELSE 3]

\* Handlers::new: database = Arc::new(Mutex::new(database)) is one shared
\* cell, and every handler is built from database.clone(), a second pointer
\* to that same cell.  The value is the cell each handler's field points to.
HandlersNew == [h \in HandlerNames |-> 1]

\* the Arc<Mutex<Database>> cells that exist after Handlers::new
Cells == {HandlersNew[h] : h \in HandlerNames}

VARIABLES
    heap,       \* heap[c]: the Database inside cell c
    mutex,      \* mutex[c]: the worker holding cell c's Mutex, 0 when free
    pc,         \* pc[t]: where worker t stands in the handler it runs
    req,        \* req[t]: the request worker t serves
    loc,        \* loc[t]: the handler's locals (payload, post, id, find result)
    resp,       \* resp[t]: the response the handler returned
    nreq,       \* requests dispatched so far
    initial,    \* the Database that was handed to Handlers::new
    addlog,     \* addlog[c]: the posts passed to add_post on cell c, in order
    acked,      \* the posts whose Create Post has returned 201, in order
    start       \* start[t]: what was true when worker t's request arrived

vars == <<heap, mutex, pc, req, loc, resp, nreq, initial, addlog, acked, start>>

\* main: the database the server is started with
MainDatabase ==
    LET first == PostNew("First post", "c", "Mathieu", 0, 1)
        second == PostNew("Hermes is now online", "c", "Mathieu", 0, 2)
    IN  add_post(add_post(DatabaseNew, first), second)

NoRequest == [handler |-> "none", readable |-> TRUE, body |-> NoPayload,
              ext |-> TRUE, param |-> NoParam, fault |-> FALSE]
NoLocals == [payload |-> NoPayload, post |-> NoPost, param |-> NoParam,
             id |-> 0, found |-> FALSE, items |-> << >>]
NoStart == [len |-> 0, acked |-> 0, locks |-> 0]

\* the cell a handler's database field points to
Db(h) == HandlersNew[h]

Init ==
    /\ initial \in {DatabaseNew, MainDatabase}
    /\ heap = [c \in Cells |-> initial]
    /\ mutex = [c \in Cells |-> 0]
    /\ pc = [t \in Workers |-> "idle"]
    /\ req = [t \in Workers |-> NoRequest]
    /\ loc = [t \in Workers |-> NoLocals]
    /\ resp = [t \in Workers |-> NoResponse]
    /\ nreq = 0
    /\ addlog = [c \in Cells |-> << >>]
    /\ acked = << >>
    /\ start = [t \in Workers |-> NoStart]

\* the router hands a request to a handler on worker t; the idle workers
\* of the pool are interchangeable, so the lowest one takes it
Dispatch(t, r, first) ==
    /\ pc[t] = "idle"
    /\ \A w \in Workers : w < t => pc[w] # "idle"
    /\ nreq < MaxRequests
    /\ nreq' = nreq + 1
    /\ req' = [req EXCEPT ![t] = r]
    /\ pc' = [pc EXCEPT ![t] = first]
    /\ start' = [start EXCEPT ![t] = [len |-> Len(posts(heap[Db("make_post")])),
                                      acked |-> Len(acked), locks |-> 0]]
    /\ UNCHANGED <<heap, mutex, loc, resp, initial, addlog, acked>>

\* the value of mutex[c] once a thread has panicked while holding cell c's
\* guard: the Mutex is free and its poison flag is set, for good
Poisoned == NumWorkers + 1

\* lock! as it would be if it took the guard out of the PoisonError
\* (lock().unwrap_or_else(|e| e.into_inner()))
Lock_ignores_poison(t, c, next) ==
    /\ mutex[c] \in {0, Poisoned}
    /\ mutex' = [mutex EXCEPT ![c] = t]
    /\ pc' = [pc EXCEPT ![t] = next]
    /\ start' = [start EXCEPT ![t].locks = @ + 1]
    /\ UNCHANGED <<heap, req, loc, resp, nreq, initial, addlog, acked>>

\* lock!(self.database): m.lock() blocks until the Mutex is free; on a
\* poisoned Mutex it gives Err and .unwrap() panics the calling thread,
\* which unwinds out of the handler without a response
Lock(t, c, next) ==
    /\ mutex[c] \in {0, Poisoned}
    /\ IF mutex[c] = Poisoned
       THEN /\ pc' = [pc EXCEPT ![t] = "panicked"]
            /\ UNCHANGED <<mutex, start>>
       ELSE /\ mutex' = [mutex EXCEPT ![c] = t]
            /\ pc' = [pc EXCEPT ![t] = next]
            /\ start' = [start EXCEPT ![t].locks = @ + 1]
    /\ UNCHANGED <<heap, req, loc, resp, nreq, initial, addlog, acked>>

\* the thread of worker t panics inside a critical section (json::encode,
\* Vec::push or Post::clone failing under the guard): unwinding drops the
\* guard, which poisons the Mutex, and the thread ends without a response
Panic(t) ==
    /\ \E c \in Cells : mutex[c] = t
    /\ mutex' = [c \in Cells |-> IF mutex[c] = t THEN Poisoned ELSE mutex[c]]
    /\ pc' = [pc EXCEPT ![t] = "panicked"]
    /\ UNCHANGED <<heap, req, loc, resp, nreq, initial, addlog, acked, start>>

\* the drop of the guard as it would be if the guard were leaked
\* (mem::forget) and the Mutex stayed locked
Unlock_leaked(t, c) == mutex

\* the MutexGuard is dropped
Unlock(t, c) == [mutex EXCEPT ![c] = IF @ = t THEN 0 ELSE @]

\* return Ok(response)
Return(t, response) ==
    /\ resp' = [resp EXCEPT ![t] = response]
    /\ pc' = [pc EXCEPT ![t] = "done"]

(* ------------------------------ FeedHandler ---------------------------- *)
BeginFeed(t, fault) ==
    /\ pc[t] = "idle"
    /\ Dispatch(t, [NoRequest EXCEPT !.handler = "feed", !.fault = fault], "feed_lock")

FeedLock(t) ==
    /\ pc[t] = "feed_lock"
    /\ Lock(t, Db("feed"), "feed_encode")

\* json::encode(guard.posts()) under the guard, which is a temporary of the
\* let statement and is dropped when the statement ends or returns
FeedEncode(t) ==
    /\ pc[t] = "feed_encode"
    /\ LET e == json_encode_posts(posts(heap[Db("feed")]), req[t].fault)
       IN  IF e.ok
           THEN /\ loc' = [loc EXCEPT ![t].items = e.items]
                /\ pc' = [pc EXCEPT ![t] = "feed_respond"]
                /\ UNCHANGED resp
           ELSE /\ Return(t, try_handler(e.err))
                /\ UNCHANGED loc
    /\ mutex' = Unlock(t, Db("feed"))
    /\ UNCHANGED <<heap, req, nreq, initial, addlog, acked, start>>

FeedRespond(t) ==
    /\ pc[t] = "feed_respond"
    /\ Return(t, ResponseItems(Ok, loc[t].items))
    /\ UNCHANGED <<heap, mutex, req, loc, nreq, initial, addlog, acked, start>>

(* ------------------------------ MakePostHandler ------------------------ *)
BeginMakePost(t, readable, body) ==
    /\ pc[t] = "idle"
    /\ Dispatch(t, [NoRequest EXCEPT !.handler = "make_post", !.readable = readable,
                                     !.body = body], "make_read")

\* req.body.read_to_string(&mut payload)
MakeRead(t) ==
    /\ pc[t] = "make_read"
    /\ IF req[t].readable
       THEN /\ loc' = [loc EXCEPT ![t].payload = req[t].body]
            /\ pc' = [pc EXCEPT ![t] = "make_decode"]
            /\ UNCHANGED resp
       ELSE /\ Return(t, try_handler("stream did not contain valid UTF-8"))
            /\ UNCHANGED loc
    /\ UNCHANGED <<heap, mutex, req, nreq, initial, addlog, acked, start>>

\* json::decode(&payload)
MakeDecode(t) ==
    /\ pc[t] = "make_decode"
    /\ LET d == json_decode(loc[t].payload)
       IN  IF d.ok
           THEN /\ loc' = [loc EXCEPT ![t].post = d.post]
                /\ pc' = [pc EXCEPT ![t] = "make_lock"]
                /\ UNCHANGED resp
           ELSE /\ Return(t, try_handler_with(d.err, BadRequest))
                /\ UNCHANGED loc
    /\ UNCHANGED <<heap, mutex, req, nreq, initial, addlog, acked, start>>

MakeLock(t) ==
    /\ pc[t] = "make_lock"
    /\ Lock(t, Db("make_post"), "make_add")

\* guard.add_post(post); the guard is dropped at the end of the statement
MakeAdd(t) ==
    /\ pc[t] = "make_add"
    /\ LET c == Db("make_post")
       IN  /\ heap' = [heap EXCEPT ![c] = add_post(@, loc[t].post)]
           /\ addlog' = [addlog EXCEPT ![c] = Append(@, loc[t].post)]
           /\ mutex' = Unlock(t, c)
    /\ pc' = [pc EXCEPT ![t] = "make_respond"]
    /\ UNCHANGED <<req, loc, resp, nreq, initial, acked, start>>

\* the 201 response as it would be if the post were encoded again
make_post_response_reencoded(payload, post) ==
    ResponsePayload(Created, json_encode(post, FALSE).payload)

\* Ok(Response::with((status::Created, payload)))
make_post_response(payload, post) == ResponsePayload(Created, payload)

MakeRespond(t) ==
    /\ pc[t] = "make_respond"
    /\ Return(t, make_post_response(loc[t].payload, loc[t].post))
    /\ acked' = Append(acked, loc[t].post)
    /\ UNCHANGED <<heap, mutex, req, loc, nreq, initial, addlog, start>>

(* ------------------------------ PostHandler ---------------------------- *)
\* ext: req.extensions holds the Router's parameters; param: what
\* router.find("id") gives, NoParam standing for None
BeginPost(t, ext, param, fault) ==
    /\ pc[t] = "idle"
    /\ Dispatch(t, [NoRequest EXCEPT !.handler = "post", !.ext = ext,
                                     !.param = param, !.fault = fault], "post_param")

\* get_http_param! as it would be if it looked for the parameter first
get_http_param_swapped(r) ==
    IF r.param = NoParam
    THEN [ok |-> FALSE, val |-> NoParam, response |-> ResponseStatus(BadRequest)]
    ELSE IF ~r.ext THEN [ok |-> FALSE, val |-> NoParam,
                         response |-> ResponseStatus(InternalServerError)]
         ELSE [ok |-> TRUE, val |-> r.param, response |-> NoResponse]

\* get_http_param!(req, "id")
get_http_param(r) ==
    IF ~r.ext THEN [ok |-> FALSE, val |-> NoParam,
                    response |-> ResponseStatus(InternalServerError)]
    ELSE IF r.param = NoParam
         THEN [ok |-> FALSE, val |-> NoParam, response |-> ResponseStatus(BadRequest)]
         ELSE [ok |-> TRUE, val |-> r.param, response |-> NoResponse]

PostParam(t) ==
    /\ pc[t] = "post_param"
    /\ LET g == get_http_param(req[t])
       IN  IF g.ok
           THEN /\ loc' = [loc EXCEPT ![t].param = g.val]
                /\ pc' = [pc EXCEPT ![t] = "post_parse"]
                /\ UNCHANGED resp
           ELSE /\ Return(t, g.response)
                /\ UNCHANGED loc
    /\ UNCHANGED <<heap, mutex, req, nreq, initial, addlog, acked, start>>

\* Uuid::parse_str(post_id)
PostParse(t) ==
    /\ pc[t] = "post_parse"
    /\ LET u == parse_str(loc[t].param)
       IN  IF u.ok
           THEN /\ loc' = [loc EXCEPT ![t].id = u.id]
                /\ pc' = [pc EXCEPT ![t] = "post_lock"]
                /\ UNCHANGED resp
           ELSE /\ Return(t, try_handler_with(u.err, BadRequest))
                /\ UNCHANGED loc
    /\ UNCHANGED <<heap, mutex, req, nreq, initial, addlog, acked, start>>

\* find_post: let locked = lock!(self.database)
PostLock(t) ==
    /\ pc[t] = "post_lock"
    /\ Lock(t, Db("post"), "post_find")

\* find as it would be if it kept the last match (rposition)
RECURSIVE find_last(_, _, _)
find_last(ps, id, i) ==
    IF i > Len(ps) THEN 0
    ELSE LET later == find_last(ps, id, i + 1)
         IN  IF later # 0 THEN later
             ELSE IF uuid(ps[i]) = id THEN i ELSE 0

\* iterator.find(|post| post.uuid() == id): the index of the first post in
\* ps whose uuid is id, 0 when there is none
RECURSIVE find(_, _, _)
find(ps, id, i) ==
    IF i > Len(ps) THEN 0
    ELSE IF uuid(ps[i]) = id THEN i
    ELSE find(ps, id, i + 1)

\* the Option<Post> find_post returns: the clone of the post found
find_post(ps, id) ==
    LET i == find(ps, id, 1)
    IN  IF i = 0 THEN [some |-> FALSE, post |-> NoPost]
        ELSE [some |-> TRUE, post |-> ps[i]]

\* find_post as it would be if it took the post out of the Vec (remove)
\* where the code clones it
PostFind_removes(t) ==
    /\ pc[t] = "post_find"
    /\ LET ps == posts(heap[Db("post")])
           f == find_post(ps, loc[t].id)
           i == find(ps, loc[t].id, 1)
       IN  /\ loc' = [loc EXCEPT ![t].found = f.some, ![t].post = f.post]
           /\ heap' = [heap EXCEPT ![Db("post")].posts =
                           IF i = 0 THEN @
                           ELSE SubSeq(@, 1, i - 1) \o SubSeq(@, i + 1, Len(@))]
    /\ mutex' = Unlock(t, Db("post"))
    /\ pc' = [pc EXCEPT ![t] = "post_respond"]
    /\ UNCHANGED <<req, resp, nreq, initial, addlog, acked, start>>

\* find_post as it would be if it returned the guard with the post, so
\* that the lock were held while handle serializes the result
PostFind_keeps_guard(t) ==
    /\ pc[t] = "post_find"
    /\ LET f == find_post(posts(heap[Db("post")]), loc[t].id)
       IN  loc' = [loc EXCEPT ![t].found = f.some, ![t].post = f.post]
    /\ pc' = [pc EXCEPT ![t] = "post_respond"]
    /\ UNCHANGED <<heap, mutex, req, resp, nreq, initial, addlog, acked, start>>

\* the scan of find_post under the guard, which is dropped on return
PostFind(t) ==
    /\ pc[t] = "post_find"
    /\ LET f == find_post(posts(heap[Db("post")]), loc[t].id)
       IN  loc' = [loc EXCEPT ![t].found = f.some, ![t].post = f.post]
    /\ mutex' = Unlock(t, Db("post"))
    /\ pc' = [pc EXCEPT ![t] = "post_respond"]
    /\ UNCHANGED <<heap, req, resp, nreq, initial, addlog, acked, start>>

\* the fetch response as it would be if a miss were reported as 400
post_response_miss_400(found, post, fault) ==
    IF found
    THEN LET e == json_encode(post, fault)
         IN  IF e.ok THEN ResponsePayload(Ok, e.payload)
             ELSE try_handler_with(e.err, BadRequest)
    ELSE ResponseStatus(BadRequest)

\* the fetch response as it would be if the encoder's error took the
\* default status of try_handler!
post_response_fault_500(found, post, fault) ==
    IF found
    THEN LET e == json_encode(post, fault)
         IN  IF e.ok THEN ResponsePayload(Ok, e.payload)
             ELSE try_handler(e.err)
    ELSE ResponseStatus(NotFound)

\* if let Some(post) = ... { encode, 200 } else { 404 }
post_response(found, post, fault) ==
    IF found
    THEN LET e == json_encode(post, fault)
         IN  IF e.ok THEN ResponsePayload(Ok, e.payload)
             ELSE try_handler_with(e.err, BadRequest)
    ELSE ResponseStatus(NotFound)

PostRespond(t) ==
    /\ pc[t] = "post_respond"
    /\ Return(t, post_response(loc[t].found, loc[t].post, req[t].fault))
    /\ UNCHANGED <<heap, mutex, req, loc, nreq, initial, addlog, acked, start>>

(* ------------------------------ the server ----------------------------- *)
\* the response has been written; the worker takes the next request
Finish(t) ==
    /\ pc[t] = "done"
    /\ pc' = [pc EXCEPT ![t] = "idle"]
    /\ req' = [req EXCEPT ![t] = NoRequest]
    /\ loc' = [loc EXCEPT ![t] = NoLocals]
    /\ resp' = [resp EXCEPT ![t] = NoResponse]
    /\ start' = [start EXCEPT ![t] = NoStart]
    /\ UNCHANGED <<heap, mutex, nreq, initial, addlog, acked>>

\* json::encode cannot fail on a Post or a Vec<Post> (strings, a timestamp
\* and a UUID, no map keys, written to a String): the encoder never faults
\* in the program as built.  SpecFault explores the handlers' Err branches.
NextWith(faults) ==
    \E t \in Workers :
        \/ \E f \in faults : BeginFeed(t, f)
        \/ FeedLock(t)
        \/ FeedEncode(t)
        \/ FeedRespond(t)
        \/ \E b \in Payloads : BeginMakePost(t, TRUE, b)
        \/ BeginMakePost(t, FALSE, NoPayload)
        \/ MakeRead(t)
        \/ MakeDecode(t)
        \/ MakeLock(t)
        \/ MakeAdd(t)
        \/ MakeRespond(t)
        \/ \E p \in Params \cup {NoParam}, f \in faults : BeginPost(t, TRUE, p, f)
        \/ \E f \in faults : BeginPost(t, FALSE, NoParam, f)
        \/ PostParam(t)
        \/ PostParse(t)
        \/ PostLock(t)
        \/ PostFind(t)
        \/ PostRespond(t)
        \/ Finish(t)

Next == NextWith({FALSE})
Spec == Init /\ [][Next]_vars

NextFault == NextWith(BOOLEAN)
SpecFault == Init /\ [][NextFault]_vars

\* the steps of the handler that worker t runs: those that wait for the
\* Mutex, and the others
LockStep(t) == FeedLock(t) \/ MakeLock(t) \/ PostLock(t)
HandlerStep(t) ==
    \/ FeedEncode(t) \/ FeedRespond(t)
    \/ MakeRead(t) \/ MakeDecode(t) \/ MakeAdd(t) \/ MakeRespond(t)
    \/ PostParam(t) \/ PostParse(t) \/ PostFind(t) \/ PostRespond(t)

\* fair scheduling: a thread that can run does run, and a thread that
\* waits for the Mutex gets it if the Mutex keeps becoming free
Fairness ==
    \A t \in Workers : WF_vars(HandlerStep(t)) /\ SF_vars(LockStep(t))
SpecFair == Init /\ [][Next]_vars /\ Fairness

\* the server when a thread may panic while it holds the guard
NextPoison ==
    \/ NextWith({FALSE})
    \/ \E t \in Workers : Panic(t)
SpecPoison == Init /\ [][NextPoison]_vars

(* ------------------------------ vocabulary of the properties ----------- *)
\* the store: the Database the Create Post handler adds to
Store == posts(heap[Db("make_post")])
\* what List Feed reads and what Fetch Post scans
FeedView == posts(heap[Db("feed")])
PostView == posts(heap[Db("post")])

IsPrefix(a, b) == Len(a) =< Len(b) /\ \A i \in 1..Len(a) : a[i] = b[i]
Prefix(a, k) == SubSeq(a, 1, k)
Range(a) == {a[i] : i \in 1..Len(a)}
DistinctIds(ps) == \A i, j \in 1..Len(ps) : i # j => ps[i].uuid # ps[j].uuid
\* the JSON array the encoder writes for ps
Encoded(ps) == [i \in 1..Len(ps) |-> [form |-> "compact", post |-> ps[i]]]

Serving(t, h) == req[t].handler = h /\ pc[t] # "idle"
Done(t, h) == req[t].handler = h /\ pc[t] = "done"
\* the request body of worker t is readable and spells a post
GoodBody(t) == req[t].readable /\ req[t].body.form \in {"compact", "spaced"}

(* ------------------------------ C1 ------------------------------------- *)
\* C1: from an empty store, once all the Create Post requests have
\* completed and the posts they were acknowledged for (201) have pairwise
\* distinct ids, List Feed returns exactly as many posts as were
\* acknowledged, and every acknowledged post is in the feed exactly once.
C1_NoLostAdd ==
    (/\ initial = DatabaseNew
     /\ \A t \in Workers : Serving(t, "make_post") => pc[t] = "done"
     /\ DistinctIds(acked))
    => LET feed == json_encode_posts(FeedView, FALSE).items
       IN  /\ Len(feed) = Len(acked)
           /\ \A i \in 1..Len(acked) :
                  /\ Cardinality({j \in 1..Len(feed) :
                                    feed[j].post.uuid = acked[i].uuid}) = 1
                  /\ \E j \in 1..Len(feed) : feed[j].post = acked[i]

\* every worker has just completed a Create Post, all at the same time,
\* with distinct ids, on a store that started empty
C1_Witness ==
    /\ initial = DatabaseNew
    /\ \A t \in Workers : Done(t, "make_post") /\ resp[t].status = Created
    /\ Len(acked) = NumWorkers
    /\ DistinctIds(acked)

(* ------------------------------ C2 ------------------------------------- *)
\* C2: in every step, every store's sequence before the step is a prefix of
\* its sequence after the step: nothing is removed, reordered or changed.
C2_AppendOnly ==
    [][\A c \in Cells : IsPrefix(posts(heap[c]), posts(heap'[c]))]_vars

\* the store held posts before the requests and has grown by two since
C2_Witness ==
    /\ initial = MainDatabase
    /\ Len(Store) = Len(posts(initial)) + 2

(* ------------------------------ C3 ------------------------------------- *)
\* C3: what list() gives is what the store held at first followed by the
\* posts that were added, one entry per add, in the order the adds took
\* effect; a List Feed during which no add took effect returns exactly that.
C3_ListIsInsertionOrder ==
    /\ FeedView = posts(initial) \o addlog[Db("make_post")]
    /\ \A t \in Workers :
           (/\ Done(t, "feed")
            /\ resp[t].status = Ok
            /\ start[t].len = Len(Store))
           => resp[t].items = Encoded(posts(initial) \o addlog[Db("make_post")])

\* a List Feed has answered after an add of a post that differs from the
\* posts the store started with
C3_Witness ==
    \E t \in Workers :
        /\ Done(t, "feed")
        /\ resp[t].status = Ok
        /\ initial = MainDatabase
        /\ Len(addlog[Db("make_post")]) = 1
        /\ Len(resp[t].items) = 3

(* ------------------------------ C4 ------------------------------------- *)
\* the least index of a post of ps whose uuid is id, 0 when there is none
FirstIndex(ps, id) ==
    LET S == {i \in 1..Len(ps) : ps[i].uuid = id}
    IN  IF S = {} THEN 0 ELSE CHOOSE i \in S : \A j \in S : i =< j

\* C4 as stated: for every post p in the store, the lookup of p's id gives
\* a value equal to p; for every id no post carries, it gives nothing.
C4_Original ==
    /\ \A i \in 1..Len(PostView) :
           find_post(PostView, PostView[i].uuid) = [some |-> TRUE, post |-> PostView[i]]
    /\ \A id \in Uuids :
           (\A i \in 1..Len(PostView) : PostView[i].uuid # id)
           => ~find_post(PostView, id).some

\* C4, amended: for every post p in the store, the lookup of p's id gives
\* the earliest-inserted post that carries that id, which is p itself when
\* no earlier post carries it; for an id no post carries, it gives nothing.
C4_FindsFirstInserted ==
    /\ \A i \in 1..Len(PostView) :
           LET r == find_post(PostView, PostView[i].uuid)
               k == FirstIndex(PostView, PostView[i].uuid)
           IN  /\ r.some
               /\ r.post = PostView[k]
               /\ (\A j \in 1..(i - 1) : PostView[j].uuid # PostView[i].uuid)
                  => r.post = PostView[i]
    /\ \A id \in Uuids :
           (\A i \in 1..Len(PostView) : PostView[i].uuid # id)
           => find_post(PostView, id) = [some |-> FALSE, post |-> NoPost]

\* a Fetch Post has scanned a store in which two different posts carry the
\* id it looks for
C4_Witness ==
    \E t \in Workers :
        /\ req[t].handler = "post"
        /\ pc[t] = "post_respond"
        /\ loc[t].found
        /\ \E i, j \in 1..Len(PostView) :
               /\ i < j
               /\ PostView[i].uuid = loc[t].id
               /\ PostView[j].uuid = loc[t].id
               /\ PostView[i] # PostView[j]

(* ------------------------------ C5 ------------------------------------- *)
\* C5: what a List Feed returns is the store as it stood at one instant
\* between the request's arrival and its response (a prefix of the store
\* now, no shorter than the store at arrival), every entry a whole post
\* that was in the store at first or was added; what a Fetch Post found is
\* the outcome of the lookup on the store at one such instant.
C5_ConsistentSnapshot ==
    \A t \in Workers :
        /\ (Serving(t, "feed") /\ pc[t] \in {"feed_respond", "done"}
            /\ (pc[t] = "done" => resp[t].status = Ok))
           => LET items == IF pc[t] = "done" THEN resp[t].items ELSE loc[t].items
              IN  /\ \E k \in start[t].len..Len(Store) : items = Encoded(Prefix(Store, k))
                  /\ \A i \in 1..Len(items) :
                         /\ items[i].post \in Post
                         /\ items[i].post \in Range(posts(initial))
                                              \cup Range(addlog[Db("make_post")])
        /\ (Serving(t, "post") /\ pc[t] = "post_respond")
           => /\ \E k \in start[t].len..Len(Store) :
                     [some |-> loc[t].found, post |-> loc[t].post]
                         = find_post(Prefix(Store, k), loc[t].id)
              /\ loc[t].found => loc[t].post \in Post

\* a List Feed that arrived before an add took effect has answered with
\* the store as it stood after that add
C5_Witness ==
    \E t \in Workers :
        /\ Done(t, "feed")
        /\ resp[t].status = Ok
        /\ Len(resp[t].items) > start[t].len
        /\ \E u \in Workers : Serving(u, "make_post") /\ pc[u] = "make_respond"

(* ------------------------------ C6 ------------------------------------- *)
\* C6: a Create Post whose body is readable and spells a post answers 201
\* with the body it was sent, unchanged; the handler's add step appends
\* the post the body spells to the end of the store and changes nothing
\* else in it, and no other step of that request changes the store.
C6_CreateEchoesAndAppends ==
    /\ [](\A t \in Workers :
              (Done(t, "make_post") /\ GoodBody(t))
              => /\ resp[t] = ResponsePayload(Created, req[t].body)
                 /\ start[t].locks = 1
                 /\ \E i \in (start[t].len + 1)..Len(Store) :
                        Store[i] = req[t].body.post)
    /\ [][\A t \in Workers :
              (Serving(t, "make_post") /\ GoodBody(t) /\ pc'[t] # pc[t])
              => IF pc[t] = "make_add"
                 THEN heap' = [heap EXCEPT ![Db("make_post")].posts =
                                   Append(@, req[t].body.post)]
                 ELSE heap' = heap]_vars

\* a Create Post has answered 201 for a body that is not the encoder's
\* rendering of the post, on a store that held posts before
C6_Witness ==
    \E t \in Workers :
        /\ Done(t, "make_post")
        /\ GoodBody(t)
        /\ resp[t].status = Created
        /\ req[t].body # json_encode(req[t].body.post, FALSE).payload
        /\ initial = MainDatabase

(* ------------------------------ C7 ------------------------------------- *)
\* C7 as stated: a Create Post answers 400 with a description both when
\* the body cannot be read and when it does not spell a post.
C7_Original ==
    \A t \in Workers :
        (Done(t, "make_post") /\ ~GoodBody(t))
        => resp[t].status = BadRequest /\ resp[t].kind = "text" /\ resp[t].text # ""

\* C7, amended: a Create Post whose body cannot be read answers 500 with a
\* description; one whose body is read but does not spell a post answers
\* 400 with a description.
C7_CreateFailures ==
    \A t \in Workers :
        Done(t, "make_post")
        => /\ ~req[t].readable
              => /\ resp[t].status = InternalServerError
                 /\ resp[t].kind = "text" /\ resp[t].text # ""
           /\ (req[t].readable /\ ~GoodBody(t))
              => /\ resp[t].status = BadRequest
                 /\ resp[t].kind = "text" /\ resp[t].text # ""

\* one Create Post has failed on an unreadable body and another on a body
\* that is not JSON
C7_Witness ==
    \E t, u \in Workers :
        /\ Done(t, "make_post") /\ ~req[t].readable
        /\ Done(u, "make_post") /\ req[u].readable /\ req[u].body.form = "notjson"

(* ------------------------------ C8 ------------------------------------- *)
\* the request of worker t fails Fetch Post's validation
NoRouter(t) == ~req[t].ext
NoIdParam(t) == req[t].ext /\ req[t].param = NoParam
BadUuid(t) == req[t].ext /\ req[t].param # NoParam /\ ~parse_str(req[t].param).ok
Invalid(t) == NoRouter(t) \/ NoIdParam(t) \/ BadUuid(t)

\* C8: Fetch Post answers 500 with an empty body when the router's
\* parameters are unavailable, else 400 when the id parameter is absent,
\* else 400 when the id is no UUID; in none of these cases does the request
\* ever hold or acquire the store's lock or read the store.
C8_FetchValidationOrder ==
    \A t \in Workers :
        (Serving(t, "post") /\ Invalid(t))
        => /\ start[t].locks = 0
           /\ \A c \in Cells : mutex[c] # t
           /\ pc[t] \notin {"post_lock", "post_find", "post_respond"}
           /\ ~loc[t].found /\ loc[t].post = NoPost
           /\ pc[t] = "done"
              => /\ NoRouter(t) => resp[t] = ResponseStatus(InternalServerError)
                 /\ NoIdParam(t) => resp[t].status = BadRequest
                 /\ BadUuid(t) => resp[t].status = BadRequest

\* one Fetch Post has been refused for want of the router's parameters and
\* another for an id that is no UUID, while the store holds posts
C8_Witness ==
    \E t, u \in Workers :
        /\ Done(t, "post") /\ NoRouter(t) /\ resp[t].status = InternalServerError
        /\ Done(u, "post") /\ BadUuid(u) /\ resp[u].status = BadRequest
        /\ Len(PostView) > 0

(* ------------------------------ C9 ------------------------------------- *)
\* C9: a Fetch Post with a valid UUID answers 200 or 404.  It answers 200
\* with the encoding of the stored post of that id (the first the store
\* holds) whenever the store held such a post when the request arrived,
\* and 404 with an empty body whenever the store holds no such post; a 200
\* always carries the stored post, a 404 is always empty.
C9_FetchFoundOrNotFound ==
    \A t \in Workers :
        (Done(t, "post") /\ ~Invalid(t))
        => LET id == parse_str(req[t].param).id
               k == FirstIndex(Store, id)
           IN  /\ resp[t].status \in {Ok, NotFound}
               /\ (k # 0 /\ k =< start[t].len) => resp[t].status = Ok
               /\ k = 0 => resp[t].status = NotFound
               /\ resp[t].status = Ok
                  => /\ k # 0
                     /\ resp[t] = ResponsePayload(Ok, [form |-> "compact",
                                                      post |-> Store[k]])
               /\ resp[t].status = NotFound => resp[t] = ResponseStatus(NotFound)

\* one Fetch Post has answered 200 and another 404
C9_Witness ==
    \E t, u \in Workers :
        /\ Done(t, "post") /\ ~Invalid(t) /\ resp[t].status = Ok
        /\ Done(u, "post") /\ ~Invalid(u) /\ resp[u].status = NotFound

(* ------------------------------ C10 ------------------------------------ *)
\* C10: every post whose Create Post had answered 201 before a List Feed
\* arrived is in what that List Feed returns, and a Fetch Post for the id
\* of such a post answers 200, whichever worker serves it.
C10_AckedIsVisible ==
    \A t \in Workers :
        /\ (Done(t, "feed") /\ resp[t].status = Ok)
           => \A i \in 1..start[t].acked :
                  \E j \in 1..Len(resp[t].items) : resp[t].items[j].post = acked[i]
        /\ (Done(t, "post") /\ ~Invalid(t))
           => \A i \in 1..start[t].acked :
                  acked[i].uuid = parse_str(req[t].param).id => resp[t].status = Ok

\* a Fetch Post that arrived after a 201 for its id has answered, for a
\* post that the store did not hold at first
C10_Witness ==
    \E t \in Workers :
        /\ Done(t, "post") /\ ~Invalid(t)
        /\ start[t].acked = 1
        /\ acked[1].uuid = parse_str(req[t].param).id
        /\ \A i \in 1..Len(posts(initial)) : posts(initial)[i].uuid # acked[1].uuid

(* ------------------------------ C11 ------------------------------------ *)
IsPoisoned == \E c \in Cells : mutex[c] = Poisoned
\* worker t's request answers in this step
Answers(t) == pc[t] # "done" /\ pc'[t] = "done"

\* C11 as stated: once the lock is poisoned the process is gone, so no
\* request is answered any more.
C11_Original ==
    [][IsPoisoned => \A t \in Workers : ~Answers(t)]_vars

\* C11, amended: once the lock is poisoned it stays poisoned and is never
\* acquired again: every request that reaches lock! panics its thread
\* there and is never answered, and the store is never written again.
\* The process goes on: the requests answered after that are those that
\* return before lock! (400 or 500 without touching the store) and those
\* that had already released the lock when it was poisoned.
C11_PoisonIsFatalToLockers ==
    [][IsPoisoned
       => /\ \A c \in Cells : mutex[c] = Poisoned => mutex'[c] = Poisoned
          /\ heap' = heap
          /\ \A t \in Workers :
                 /\ start'[t].locks =< start[t].locks
                 /\ pc[t] \in {"feed_lock", "make_lock", "post_lock"}
                    => pc'[t] \in {pc[t], "panicked"}
                 /\ pc[t] = "panicked" => pc'[t] = "panicked"
                 /\ Answers(t)
                    => \/ start[t].locks = 0
                             /\ resp'[t].status \in {BadRequest, InternalServerError}
                       \/ start[t].locks = 1
                             /\ pc[t] \in {"feed_respond", "make_respond", "post_respond"}]_vars

\* after the lock was poisoned by one worker, another worker's request has
\* panicked at lock!
C11_Witness ==
    /\ IsPoisoned
    /\ \E t, u \in Workers :
           /\ t # u
           /\ pc[t] = "panicked" /\ start[t].locks = 1
           /\ pc[u] = "panicked" /\ start[u].locks = 0

(* ------------------------------ C12 ------------------------------------ *)
InHandler(t) == pc[t] \notin {"idle", "done", "panicked"}
Holds(t) == \E c \in Cells : mutex[c] = t

\* C12: a request acquires the store's lock at most once, never while it
\* holds it, and does not hold it any more when it responds; under fair
\* scheduling every request that a handler has begun to serve is answered.
C12_NoDeadlock ==
    /\ [](\A t \in Workers :
              /\ start[t].locks =< 1
              /\ pc[t] \in {"feed_lock", "make_lock", "post_lock"} => ~Holds(t)
              /\ pc[t] \in {"idle", "done"} => ~Holds(t)
              /\ Holds(t) => start[t].locks = 1)
    /\ \A t \in Workers : InHandler(t) ~> (pc[t] = "done")

\* a Create Post waits at lock! while a List Feed holds the lock
C12_Witness ==
    \E t, u \in Workers :
        /\ pc[t] = "make_lock"
        /\ pc[u] = "feed_encode"
        /\ mutex[Db("make_post")] = u

(* ------------------------------ C13 ------------------------------------ *)
\* C13: List Feed answers 200 with the JSON array of every post the store
\* held when it was read, in order (the whole store when no add took
\* effect since the request arrived); on an empty store the array is [].
C13_FeedIsWholeStore ==
    \A t \in Workers :
        Done(t, "feed")
        => /\ resp[t].status = Ok
           /\ resp[t].kind = "array"
           /\ \E k \in start[t].len..Len(Store) :
                  resp[t] = ResponseItems(Ok, Encoded(Prefix(Store, k)))
           /\ start[t].len = Len(Store) => resp[t].items = Encoded(Store)
           /\ Len(Store) = 0 => resp[t].items = << >>

\* a List Feed has answered 200 with [] on an empty store
C13_Witness ==
    \E t \in Workers :
        /\ Done(t, "feed")
        /\ initial = DatabaseNew
        /\ Len(Store) = 0
        /\ resp[t] = ResponseItems(Ok, << >>)

(* ------------------------------ C14 ------------------------------------ *)
\* C14: a Create Post with a valid post whose id a stored post already
\* carried when the request arrived still answers 201 and still appends
\* the post: the store then holds two posts of that id.
C14_NoDuplicateCheck ==
    \A t \in Workers :
        (/\ Done(t, "make_post")
         /\ GoodBody(t)
         /\ \E i \in 1..start[t].len : Store[i].uuid = req[t].body.post.uuid)
        => /\ resp[t].status = Created
           /\ \E i \in 1..start[t].len, j \in (start[t].len + 1)..Len(Store) :
                  /\ Store[i].uuid = Store[j].uuid
                  /\ Store[j] = req[t].body.post

\* a Create Post has answered 201 for a post whose id a different stored
\* post carried already
C14_Witness ==
    \E t \in Workers :
        /\ Done(t, "make_post")
        /\ GoodBody(t)
        /\ resp[t].status = Created
        /\ \E i \in 1..start[t].len :
               /\ Store[i].uuid = req[t].body.post.uuid
               /\ Store[i] # req[t].body.post

(* ------------------------------ C15 ------------------------------------ *)
\* C15: the lookup of an id gives the post of that id that was inserted
\* first, and so does Fetch Post; once the lookup of an id gives a post, no
\* later step changes what it gives.
C15_FirstInsertedWins ==
    /\ [](/\ \A id \in Uuids :
                 LET S == {i \in 1..Len(PostView) : PostView[i].uuid = id}
                     r == find_post(PostView, id)
                 IN  S # {} => /\ r.some
                               /\ \E i \in S : /\ r.post = PostView[i]
                                               /\ \A j \in S : i =< j
          /\ \A t \in Workers :
                 (Done(t, "post") /\ resp[t].status = Ok)
                 => resp[t].payload.post
                        = Store[FirstIndex(Store, parse_str(req[t].param).id)])
    /\ [][\A id \in Uuids :
              find_post(PostView, id).some
              => find_post(PostView', id) = find_post(PostView, id)]_vars

\* a Fetch Post has answered 200 with the first of two different stored
\* posts of the id it was asked for
C15_Witness ==
    \E t \in Workers :
        /\ Done(t, "post")
        /\ resp[t].status = Ok
        /\ \E i, j \in 1..Len(Store) :
               /\ i < j
               /\ Store[i].uuid = Store[j].uuid
               /\ Store[i] # Store[j]
               /\ resp[t].payload.post = Store[i]

(* ------------------------------ C16 ------------------------------------ *)
\* C16: no step of a List Feed or of a Fetch Post changes a store, whatever
\* the response; and two List Feeds answered 200 with no add taking effect
\* since the earlier of them arrived carry the same body.
C16_ReadsAreReadOnly ==
    /\ [][\A t \in Workers :
              (pc'[t] # pc[t]
               /\ (req[t].handler \in {"feed", "post"}
                   \/ req'[t].handler \in {"feed", "post"}))
              => heap' = heap /\ addlog' = addlog]_vars
    /\ [](\A t, u \in Workers :
              (/\ Done(t, "feed") /\ resp[t].status = Ok
               /\ Done(u, "feed") /\ resp[u].status = Ok
               /\ start[t].len = Len(Store)
               /\ start[u].len = Len(Store))
              => resp[t] = resp[u])

\* one Fetch Post has answered 404 and one List Feed 500, on a store that
\* holds posts
C16_Witness ==
    \E t, u \in Workers :
        /\ Done(t, "post") /\ resp[t].status = NotFound
        /\ Done(u, "feed") /\ resp[u].status = InternalServerError
        /\ Len(Store) > 0

(* ------------------------------ C17 ------------------------------------ *)
\* the statuses a handler answers with
Statuses == {Ok, Created, BadRequest, NotFound, InternalServerError}

\* C17: while the lock is not poisoned, whatever a handler returns is a
\* response (never an Err handed to the framework) whose status is one of
\* 200, 201, 400, 404 and 500, and every error a handler meets gives a
\* response of status 400 or 500 that carries the error's description or
\* nothing; no thread panics.
C17_ErrorsBecomeResponses ==
    \A t \in Workers :
        /\ pc[t] # "panicked"
        /\ pc[t] = "done"
           => /\ resp[t] # NoResponse
              /\ resp[t].kind \in {"empty", "text", "json", "array"}
              /\ resp[t].status \in Statuses
              /\ resp[t].kind = "text"
                 => resp[t].status \in {BadRequest, InternalServerError}
                    /\ resp[t].text # ""

\* a List Feed whose encoder failed and a Create Post whose body was no
\* JSON have both been answered, 500 and 400
C17_Witness ==
    \E t, u \in Workers :
        /\ Done(t, "feed") /\ req[t].fault
        /\ resp[t] = ResponseText(InternalServerError, "encoder error")
        /\ Done(u, "make_post") /\ req[u].body.form = "notjson"
        /\ resp[u] = ResponseText(BadRequest, "failed to parse json")

(* ------------------------------ C18 ------------------------------------ *)
\* C18: a worker holds the lock only in the encoding of the feed, in the
\* append and in the scan.  Create Post has read and parsed the whole body
\* when it asks for the lock, and has no lock while it reads, parses or
\* responds; Fetch Post has extracted and parsed the id when it asks for
\* the lock, and has released it when it serializes the post it found.
C18_NoRequestIoUnderLock ==
    \A t \in Workers :
        /\ Holds(t) => pc[t] \in {"feed_encode", "make_add", "post_find"}
        /\ pc[t] \in {"make_read", "make_decode", "post_param", "post_parse"}
           => ~Holds(t) /\ start[t].locks = 0
        /\ pc[t] \in {"make_lock", "make_add"}
           => /\ req[t].readable
              /\ loc[t].payload = req[t].body
              /\ json_decode(loc[t].payload).ok
              /\ loc[t].post = json_decode(loc[t].payload).post
        /\ pc[t] \in {"post_lock", "post_find"}
           => /\ get_http_param(req[t]).ok
              /\ loc[t].param = req[t].param
              /\ parse_str(loc[t].param).ok
              /\ loc[t].id = parse_str(loc[t].param).id
        /\ pc[t] \in {"make_respond", "post_respond"}
           => ~Holds(t) /\ start[t].locks = 1

\* a Fetch Post serializes the post it found while a Create Post, its body
\* read and parsed, holds the lock for the append
C18_Witness ==
    \E t, u \in Workers :
        /\ pc[t] = "post_respond" /\ loc[t].found
        /\ pc[u] = "make_add" /\ mutex[Db("make_post")] = u

(* ------------------------------ C19 ------------------------------------ *)
\* C19: when the encoder fails, List Feed answers 500 with the error's
\* description and Fetch Post, for a post it found, answers 400 with the
\* error's description; the step that answers so leaves the store as it
\* was.
C19_EncoderFailureStatus ==
    /\ [](\A t \in Workers :
              /\ (Done(t, "feed") /\ req[t].fault)
                 => resp[t] = ResponseText(InternalServerError, "encoder error")
              /\ (Done(t, "post") /\ req[t].fault /\ loc[t].found)
                 => resp[t] = ResponseText(BadRequest, "encoder error"))
    /\ [][\A t \in Workers :
              (Answers(t) /\ req[t].fault /\ req[t].handler \in {"feed", "post"})
              => heap' = heap]_vars

\* the encoder has failed in a List Feed and in a Fetch Post that had found
\* its post, and both have answered
C19_Witness ==
    \E t, u \in Workers :
        /\ Done(t, "feed") /\ req[t].fault
        /\ resp[t].status = InternalServerError
        /\ Done(u, "post") /\ req[u].fault /\ loc[u].found
        /\ resp[u].status = BadRequest

(* ------------------------------ C20 ------------------------------------ *)
\* C20: no step of a Create Post whose body is unreadable or spells no post
\* changes the store, and such a request answers without having asked for
\* the lock; the store changes only by the append of a post that was read
\* and parsed from the request's body; and the store's length is the
\* initial length plus the number of Create Posts whose append has taken
\* effect (those answered 201 and those about to be).
C20_FailedCreateLeavesStore ==
    /\ [](/\ \A t \in Workers :
                 (Serving(t, "make_post") /\ ~GoodBody(t))
                 => /\ start[t].locks = 0
                    /\ pc[t] \in {"make_read", "make_decode", "done"}
                    /\ pc[t] = "done" => resp[t].status \in {BadRequest,
                                                             InternalServerError}
          /\ \A t \in Workers :
                 (Done(t, "make_post") /\ resp[t].status # Created) => ~GoodBody(t)
          /\ Len(Store) = Len(posts(initial)) + Len(acked)
                          + Cardinality({t \in Workers : pc[t] = "make_respond"}))
    /\ [][/\ \A t \in Workers :
                 (req'[t].handler = "make_post" /\ pc'[t] # pc[t]
                  /\ ~(req'[t].readable
                       /\ req'[t].body.form \in {"compact", "spaced"}))
                 => heap' = heap
          /\ heap' # heap
             => \E t \in Workers :
                    /\ pc[t] = "make_add"
                    /\ GoodBody(t)
                    /\ loc[t].post = req[t].body.post
                    /\ heap' = [heap EXCEPT ![Db("make_post")] =
                                                add_post(@, loc[t].post)]]_vars

\* after a Create Post was answered 201, one whose body lacks a field has
\* been answered 400, and the store has grown by one post
C20_Witness ==
    /\ Len(acked) = 1
    /\ Len(Store) = Len(posts(initial)) + 1
    /\ \E t \in Workers :
           /\ Done(t, "make_post") /\ req[t].body.form = "incomplete"
           /\ start[t].acked = 1
           /\ resp[t].status = BadRequest
====
